---- MODULE Spec2Model ----
(***************************************************************************)
(* Model of the WebXR "spider-pig" interaction loop (latest revision of   *)
(* main.js): the select handler (placeDonutOnSurface), the per-frame tick  *)
(* (animate = ensurePigIsUpsideDown, reticle update, collectClosestDonut,  *)
(* checkPigMovement, footprint gate), the setTimeout callbacks and the     *)
(* asynchronous loads and hit-test source requests.                        *)
(*                                                                         *)
(* Units: lengths are in hundredths of a world unit (the walk step 0.01    *)
(* is 1, the collection radius 0.1 is 10), vector components in            *)
(* hundredths (normal.y = -0.5 is -50), times in milliseconds.  Positions  *)
(* are points of one straight line on the ceiling, so distanceTo is the    *)
(* absolute difference and a normalized direction is a sign.               *)
(***************************************************************************)
EXTENDS Integers, Sequences, FiniteSets, TLC

\* ------------------------------------------------------------------ bounds
MaxWaits == 2           \* long waits the clock is followed through
MaxPlaced == 1          \* most donuts Spec accepts in one run
MaxDonuts == 2          \* most donuts in the registry at once
MaxTotal == 2           \* most donuts SpecLoop accepts in one run
MaxCollected == 10      \* most donuts SpecMilestone accepts in one run
MaxSessions == 1        \* most XR sessions started in one run
MaxMarks == 5           \* instants SpecMarks observes the clock at

\* ------------------------------------------------------- program constants
CeilingThreshold == -50     \* normal.y < -0.5
WalkStep == 1               \* direction.multiplyScalar(0.01)
CollectRadius == 10         \* distanceTo(...) < 0.1
MilestoneEvery == 10        \* donuts_collected % 10 === 0
EatCooldown == 2000         \* setTimeout(..., 2000)
IdleTimeout == 30000        \* currentTime - lastMovementTime > 30000
FootprintInterval == 1000   \* currentTime - lastFootprintTime > 1000
FootprintLifetime == 5000   \* setTimeout(..., 5000)
UpsideDownDot == 99         \* pigUp.dot(ceilingNormal) < 0.99
DeathClipDuration == 3000   \* deathAction._clip.duration * 1000

\* ------------------------------------------------------------ input sets
\* Date.now() when the module is evaluated; the zero timestamps of
\* lastFootprintTime and lastDeathActionTime lie more than 30 s before it
StartTime == 31000

Offsets == {-11, 11}    \* (Math.random() - 0.5) * 2, in (-100, 100)

\* the instants at which the clock is observed: the end of a cooldown that
\* began at the start
ShortInstants == {StartTime + EatCooldown}

\* and, for each long wait, the instant the idle timeout is reached, the
\* dormant clip's duration later and twice that later
LongInstants ==
  {StartTime + w * IdleTimeout + k * DeathClipDuration :
     w \in 1..MaxWaits, k \in 0..2}

\* y component of (0,1,0) rotated by a quaternion, in hundredths
UpY(q) ==
  CASE q = "ceiling" -> -100
    [] q = "steep" -> -51
    [] q = "edge" -> -50
    [] OTHER -> 100

Abs(x) == IF x < 0 THEN -x ELSE x

\* Vector3.distanceTo on the line
DistanceTo(a, b) == Abs(a - b)

\* the direction always the zero vector
DirectionNone(to, from) == 0

\* Vector3.subVectors(to, from).normalize(); the zero vector normalizes to zero
Direction(to, from) == IF to > from THEN 1 ELSE IF to < from THEN -1 ELSE 0

\* Quaternion.setFromUnitVectors((0,0,-1), direction): a yaw about the y axis
FacingQuaternion(dir) ==
  IF dir > 0 THEN "yawPlus" ELSE IF dir < 0 THEN "yawMinus" ELSE "identity"

VARIABLES
  now,                   \* Date.now()
  model,                 \* TRUE once the donut prototype is loaded (non-null)
  modelVisible,          \* model.visible
  pig,                   \* TRUE once the pig is loaded (non-null)
  pigPosition, pigQuaternion, pigVisible,
  walkAction, idleAction, eatingAction, deathAction,  \* "null", "stopped", "running"
  nb_donuts, donuts_collected,
  donuts,                \* the registry: sequence of donut objects
  scene,                 \* handles of the objects added to the scene
  reticleVisible, reticleMatrix,
  hitTestSource,         \* 0 for null, else the session the source belongs to
  hitTestSourceRequested,
  sessionActive, sessionId, endListener,
  pendingHitTest,        \* hit-test source requests not yet resolved
  lastMovementTime, lastFootprintTime, lastDeathActionTime,
  timers,                \* pending setTimeout callbacks, in creation order
  rendered,              \* the pig orientation the last render drew, or "none"
  played,                \* the sounds the last handler played
  fault                  \* the exception the last handler threw, or "none"

vars == <<now, model, modelVisible, pig, pigPosition, pigQuaternion, pigVisible,
          walkAction, idleAction, eatingAction, deathAction, nb_donuts,
          donuts_collected, donuts, scene, reticleVisible, reticleMatrix,
          hitTestSource, hitTestSourceRequested, sessionActive, sessionId,
          endListener, pendingHitTest, lastMovementTime, lastFootprintTime,
          lastDeathActionTime, timers, rendered, played, fault>>

\* The state as one record, so that a handler is a composition of its calls.
Cur ==
  [now |-> now, model |-> model, modelVisible |-> modelVisible, pig |-> pig,
   pigPosition |-> pigPosition, pigQuaternion |-> pigQuaternion,
   pigVisible |-> pigVisible, walkAction |-> walkAction,
   idleAction |-> idleAction, eatingAction |-> eatingAction,
   deathAction |-> deathAction, nb_donuts |-> nb_donuts,
   donuts_collected |-> donuts_collected, donuts |-> donuts, scene |-> scene,
   reticleVisible |-> reticleVisible, reticleMatrix |-> reticleMatrix,
   hitTestSource |-> hitTestSource,
   hitTestSourceRequested |-> hitTestSourceRequested,
   sessionActive |-> sessionActive, sessionId |-> sessionId,
   endListener |-> endListener, pendingHitTest |-> pendingHitTest,
   lastMovementTime |-> lastMovementTime,
   lastFootprintTime |-> lastFootprintTime,
   lastDeathActionTime |-> lastDeathActionTime, timers |-> timers,
   rendered |-> rendered,
   played |-> played, fault |-> fault]

Commit(s) ==
  /\ now' = s.now /\ model' = s.model /\ modelVisible' = s.modelVisible
  /\ pig' = s.pig /\ pigPosition' = s.pigPosition
  /\ pigQuaternion' = s.pigQuaternion /\ pigVisible' = s.pigVisible
  /\ walkAction' = s.walkAction /\ idleAction' = s.idleAction
  /\ eatingAction' = s.eatingAction /\ deathAction' = s.deathAction
  /\ nb_donuts' = s.nb_donuts /\ donuts_collected' = s.donuts_collected
  /\ donuts' = s.donuts /\ scene' = s.scene
  /\ reticleVisible' = s.reticleVisible /\ reticleMatrix' = s.reticleMatrix
  /\ hitTestSource' = s.hitTestSource
  /\ hitTestSourceRequested' = s.hitTestSourceRequested
  /\ sessionActive' = s.sessionActive /\ sessionId' = s.sessionId
  /\ endListener' = s.endListener /\ pendingHitTest' = s.pendingHitTest
  /\ lastMovementTime' = s.lastMovementTime
  /\ lastFootprintTime' = s.lastFootprintTime
  /\ lastDeathActionTime' = s.lastDeathActionTime /\ timers' = s.timers
  /\ rendered' = s.rendered
  /\ played' = s.played /\ fault' = s.fault

\* A handler starts with no sound played and no exception thrown.
Enter == [Cur EXCEPT !.played = <<>>, !.fault = "none"]

\* State after init() has run up to its await: nothing is loaded, the reticle
\* is hidden with the identity matrix, the three sounds are constructed.
Init ==
  /\ now = StartTime
  /\ model = FALSE /\ modelVisible = FALSE
  /\ pig = FALSE /\ pigPosition = 0 /\ pigQuaternion = "identity"
  /\ pigVisible = FALSE
  /\ walkAction = "null" /\ idleAction = "null"
  /\ eatingAction = "null" /\ deathAction = "null"
  /\ nb_donuts = 0 /\ donuts_collected = 0 /\ donuts = <<>>
  /\ scene = {<<"reticle">>}
  /\ reticleVisible = FALSE
  /\ reticleMatrix = [position |-> 0, quaternion |-> "identity", scale |-> 1]
  /\ hitTestSource = 0 /\ hitTestSourceRequested = FALSE
  /\ sessionActive = FALSE /\ sessionId = 0 /\ endListener = FALSE
  /\ pendingHitTest = {}
  /\ lastMovementTime = StartTime
  /\ lastFootprintTime = 0 /\ lastDeathActionTime = 0
  /\ timers = <<>> /\ rendered = "none"
  /\ played = <<>> /\ fault = "none"

\* ------------------------------------------------------------ asset loads
\* loader.load callback of loadModel
LoadModel ==
  /\ ~model
  /\ Commit([Enter EXCEPT
       !.model = TRUE, !.modelVisible = FALSE,
       !.scene = scene \cup {<<"model">>}])

\* loader.load callback of loadPig
LoadPig ==
  /\ ~pig
  /\ Commit([Enter EXCEPT
       !.pig = TRUE, !.pigVisible = FALSE,
       !.walkAction = "stopped", !.idleAction = "stopped",
       !.eatingAction = "stopped", !.deathAction = "stopped"])

\* ------------------------------------------------ ceiling-inversion correction
\* ensurePigIsUpsideDown: pigUp is the pig's rotated up vector; every pig
\* quaternion of this model keeps it vertical, so crossVectors(pigUp,
\* ceilingNormal) is the zero vector and setFromAxisAngle gets a zero axis.
EnsurePigIsUpsideDown(s) ==
  IF s.pig /\ -UpY(s.pigQuaternion) < UpsideDownDot
  THEN [s EXCEPT !.pigQuaternion = "zeroAxisPi"]
  ELSE s

\* ------------------------------------------------------------- placement
\* the smallest handle no live object of that kind uses
FreshId(kind, s) ==
  LET used == {h[2] : h \in {o \in s.scene : o[1] = kind}}
                 \cup (IF kind = "donut"
                       THEN {s.donuts[i].id : i \in 1..Len(s.donuts)} ELSE {})
  IN CHOOSE i \in 1..(Cardinality(used) + 1) :
       i \notin used /\ \A j \in 1..(i - 1) : j \in used

\* placePigOnCeiling(position_donut), offset being the random planar offset
PlacePigOnCeiling(s, position_donut, offset) ==
  IF s.reticleVisible /\ s.pig
  THEN [EnsurePigIsUpsideDown([s EXCEPT !.pigPosition = position_donut + offset])
          EXCEPT !.pigVisible = TRUE, !.scene = @ \cup {<<"pig">>}]
  ELSE s

\* the gate with the comparison made inclusive
GateAcceptsInclusive(quaternion) == UpY(quaternion) <= CeilingThreshold

\* the gate of placeDonutOnSurface: normal.y < -0.5
GateAccepts(quaternion) == UpY(quaternion) < CeilingThreshold

\* the guard without its reticle.visible conjunct
CanPlaceUnseen(s) == s.model

\* the guard of placeDonutOnSurface: reticle.visible && model
CanPlace(s) == s.reticleVisible /\ s.model

\* the clone with the quaternion copy left out
PoseCloneUnrotated(id, position, quaternion, scale) ==
  [id |-> id, position |-> position, quaternion |-> "identity", scale |-> scale]

\* model.clone() given the decomposed reticle pose
PoseClone(id, position, quaternion, scale) ==
  [id |-> id, position |-> position, quaternion |-> quaternion, scale |-> scale]

\* the materialization guard always open
FirstPlacementAlways(s) == TRUE

\* nb_donuts == 0
FirstPlacement(s) == s.nb_donuts = 0

\* donut.visible = true
Shown(donut) == donut @@ [visible |-> TRUE]

\* placeDonutOnSurface
PlaceDonutOnSurface(s, offset) ==
  IF CanPlace(s)
  THEN LET position == s.reticleMatrix.position
           quaternion == s.reticleMatrix.quaternion
           scale == s.reticleMatrix.scale
       IN IF GateAccepts(quaternion)
          THEN LET donut == Shown(PoseClone(FreshId("donut", s), position,
                                            quaternion, scale))
                   s1 == [s EXCEPT !.scene = @ \cup {<<"donut", donut.id>>},
                                   !.donuts = Append(@, donut)]
               IN IF FirstPlacement(s1)
                  THEN [PlacePigOnCeiling(s1, donut.position, offset)
                          EXCEPT !.nb_donuts = @ + 1]
                  ELSE s1
          ELSE [s EXCEPT !.played = Append(@, <<"doh", position>>),
                         !.scene = @ \cup {<<"dohSound">>}]
  ELSE s

\* onSelect, the controller's select event, delivered while a session runs
OnSelectWith(offsets) ==
  /\ sessionActive
  /\ \E offset \in offsets : Commit(PlaceDonutOnSurface(Enter, offset))

OnSelect == OnSelectWith(Offsets)

\* A select event within the model's bounds: it is not taken when it would
\* leave more than inRegistry donuts in the registry or bring the donuts
\* accepted so far above total.
SelectWithin(inRegistry, total) ==
  /\ OnSelect
  /\ Len(donuts') <= inRegistry
  /\ Len(donuts') + donuts_collected' <= total

Select == SelectWithin(MaxPlaced, MaxPlaced)

\* ------------------------------------------------------- session, hit test
\* the 'sessionstart' listener of init: requests a hit-test source
SessionStart ==
  /\ ~sessionActive
  /\ sessionId < MaxSessions
  /\ Commit([Enter EXCEPT
       !.sessionActive = TRUE, !.sessionId = sessionId + 1,
       !.endListener = FALSE,
       !.pendingHitTest = @ \cup {[session |-> sessionId + 1, via |-> "local"]}])

\* then-callback of a requestHitTestSource promise: hitTestSource = source
HitTestSourceResolved ==
  \E r \in pendingHitTest :
    Commit([Enter EXCEPT
      !.hitTestSource = r.session, !.pendingHitTest = @ \ {r}])

\* the session ends; the 'end' listener exists once a frame has added it
SessionEnd ==
  /\ sessionActive
  /\ LET s == [Enter EXCEPT !.sessionActive = FALSE, !.endListener = FALSE]
     IN Commit(IF endListener
               THEN [s EXCEPT !.hitTestSourceRequested = FALSE,
                              !.hitTestSource = 0]
               ELSE s)

\* ------------------------------------------------------------- the tick
\* a call skipped once an exception has been thrown
Then(s, Op(_)) == IF s.fault = "none" THEN Op(s) ELSE s

\* the hit-test samples a frame can deliver for the current source
NoSample == [position |-> 0, quaternion |-> "none", scale |-> 0]
HitPoses ==
  {[position |-> 0, quaternion |-> "ceiling", scale |-> 1],
   [position |-> 4, quaternion |-> "steep", scale |-> 1],
   [position |-> 4, quaternion |-> "edge", scale |-> 1]}
CeilingPoses == {[position |-> 0, quaternion |-> "ceiling", scale |-> 1]}

\* the new pose keeping the position of the one before
PoseSmoothed(previous, hit) == [hit EXCEPT !.position = previous.position]

\* reticle.matrix.fromArray(pose.transform.matrix)
PoseFromSample(previous, hit) == hit

\* the if (frame) block of animate, hit being the first hit-test result
Targeting(s, hit) ==
  LET s1 == IF ~s.hitTestSourceRequested
            THEN [s EXCEPT
                    !.pendingHitTest =
                       @ \cup {[session |-> s.sessionId, via |-> "viewer"]},
                    !.endListener = TRUE,
                    !.hitTestSourceRequested = TRUE]
            ELSE s
  IN IF s1.hitTestSource # 0
     THEN IF s1.hitTestSource # s1.sessionId
          THEN [s1 EXCEPT !.fault = "InvalidStateError"]
          ELSE IF hit # NoSample
          THEN [s1 EXCEPT !.reticleVisible = TRUE,
                          !.reticleMatrix = PoseFromSample(@, hit),
                          !.modelVisible = IF s1.model THEN TRUE ELSE @]
          ELSE [s1 EXCEPT !.reticleVisible = FALSE,
                          !.modelVisible = IF s1.model THEN FALSE ELSE @]
     ELSE s1

\* the callback never scheduled
SetTimeoutDropped(ts, t) == ts

\* setTimeout(callback, delay): the queue is kept in firing order, by deadline
\* and, for equal deadlines, by creation
SetTimeout(ts, t) ==
  LET n == Cardinality({i \in 1..Len(ts) : ts[i].deadline <= t.deadline})
  IN [i \in 1..(Len(ts) + 1) |->
        IF i <= n THEN ts[i] ELSE IF i = n + 1 THEN t ELSE ts[i - 1]]

\* AnimationAction.play and stop; calling either on null throws
Play(action) == "running"
\* stop leaving the clip as it is
StopIgnored(action) == action

\* AnimationAction.stop
Stop(action) == "stopped"
IsRunning(action) == action = "running"

\* the comparison of the scan made inclusive
CloserOrEqual(distance, minDistance) == distance <= minDistance

\* distance < minDistance
Closer(distance, minDistance) == distance < minDistance

\* index of the donut the forEach scan of collectClosestDonut ends with:
\* the running minimum is replaced only by a strictly smaller distance
RECURSIVE ClosestFrom(_, _, _, _)
ClosestFrom(ds, from, i, best) ==
  IF i > Len(ds) THEN best
  ELSE IF best = 0
          \/ Closer(DistanceTo(from, ds[i].position),
                    DistanceTo(from, ds[best].position))
       THEN ClosestFrom(ds, from, i + 1, i)
       ELSE ClosestFrom(ds, from, i + 1, best)

ClosestDonut(ds, from) == ClosestFrom(ds, from, 1, 0)

\* the filter dropping the donuts behind the collected one as well
RemoveFrom(ds, k) == SubSeq(ds, 1, k - 1)

\* donuts.filter(donut => donut !== closestDonut)
RemoveAt(ds, k) == [i \in 1..(Len(ds) - 1) |-> IF i < k THEN ds[i] ELSE ds[i + 1]]

\* the milestone test applied to the count before the increment
IsMilestoneBefore(n) == (n - 1) % MilestoneEvery = 0

\* donuts_collected % 10 === 0
IsMilestone(n) == n % MilestoneEvery = 0

\* the collection test with the walk step as its radius
WithinReachOfStep(position, target) == DistanceTo(position, target) < WalkStep

\* pig.position.distanceTo(closestDonut.position) < 0.1
WithinReach(position, target) == DistanceTo(position, target) < CollectRadius

\* the counter raised by two
IncrementTwice(n) == n + 2

\* donuts_collected++
Increment(n) == n + 1

\* the removal from the scene left out
SceneRemoveLater(objects, object) == objects

\* scene.remove(object)
SceneRemove(objects, object) == objects \ {object}

\* the collected branch of collectClosestDonut (distance < 0.1)
Collect(s, k) ==
  LET n == Increment(s.donuts_collected)
      s1 == [s EXCEPT
               !.scene = SceneRemove(@, <<"donut", s.donuts[k].id>>),
               !.donuts = RemoveAt(@, k),
               !.donuts_collected = n,
               !.walkAction = Stop(@),
               !.eatingAction = Play(@),
               !.played = Append(@, <<"point", s.pigPosition>>)]
      s2 == IF IsMilestone(n)
            THEN [s1 EXCEPT
                    !.played = Append(@, <<"victory", s.pigPosition>>),
                    !.scene = @ \cup {<<"victorySound">>}]
            ELSE s1
  IN [s2 EXCEPT
        !.scene = @ \cup {<<"pointSound">>},
        !.timers = SetTimeout(@, [kind |-> "eat", target |-> 0,
                                  deadline |-> s.now + EatCooldown])]

\* the transition to Idle of collectClosestDonut when there is no target
EnterIdle(s) ==
  IF ~IsRunning(s.idleAction)
  THEN [s EXCEPT !.walkAction = Stop(@), !.eatingAction = Stop(@),
                 !.idleAction = Play(@)]
  ELSE s

\* the step added twice
AddScaledTwice(position, direction) == position + 2 * direction * WalkStep

\* pig.position.add(direction.multiplyScalar(0.01))
AddScaled(position, direction) == position + direction * WalkStep

\* the timestamp left as it was
MovementTimeKept(s) == s.lastMovementTime

\* lastMovementTime = Date.now()
MovementTime(s) == s.now

\* collectClosestDonut
CollectClosestDonut(s) ==
  IF Len(s.donuts) > 0 /\ s.pig
  THEN LET k == ClosestDonut(s.donuts, s.pigPosition)
       IN IF k # 0
          THEN LET target == s.donuts[k].position
                   s1 == EnsurePigIsUpsideDown(s)
                   direction == Direction(target, s1.pigPosition)
                   s2 == [s1 EXCEPT
                            !.pigQuaternion = FacingQuaternion(direction),
                            !.pigPosition = AddScaled(@, direction),
                            !.lastMovementTime = MovementTime(s)]
                   s3 == IF ~IsRunning(s2.walkAction)
                         THEN [s2 EXCEPT !.idleAction = Stop(@),
                                         !.eatingAction = Stop(@),
                                         !.walkAction = Play(@)]
                         ELSE s2
               IN IF WithinReach(s3.pigPosition, target)
                  THEN Collect(s3, k)
                  ELSE s3
          ELSE EnterIdle(s)
  ELSE IF s.pig THEN EnterIdle(s) ELSE s

\* the watchdog test with either elapsed time sufficing
WatchdogDueEither(s, currentTime) ==
  \/ currentTime - s.lastMovementTime > IdleTimeout
  \/ currentTime - s.lastDeathActionTime > IdleTimeout

\* currentTime - lastMovementTime > 30000 &&
\* currentTime - lastDeathActionTime > 30000
WatchdogDue(s, currentTime) ==
  /\ currentTime - s.lastMovementTime > IdleTimeout
  /\ currentTime - s.lastDeathActionTime > IdleTimeout

\* checkPigMovement: deathAction is dereferenced without a null check
CheckPigMovement(s) ==
  LET currentTime == s.now
  IN IF WatchdogDue(s, currentTime)
     THEN IF s.deathAction = "null"
          THEN [s EXCEPT !.fault = "TypeError"]
          ELSE IF ~IsRunning(s.deathAction)
          THEN [s EXCEPT
                  !.idleAction = Stop(@), !.walkAction = Stop(@),
                  !.eatingAction = Stop(@), !.deathAction = Play(@),
                  !.lastDeathActionTime = currentTime,
                  !.timers = SetTimeout(@, [kind |-> "death", target |-> 0,
                                            deadline |-> currentTime + DeathClipDuration])]
          ELSE s
     ELSE s

\* placeFootprint(position, direction)
PlaceFootprint(s, position, direction) ==
  LET id == FreshId("footprint", s)
  IN [s EXCEPT
        !.scene = @ \cup {<<"footprint", id, position, direction>>},
        !.timers = SetTimeout(@, [kind |-> "footprint", target |-> id,
                                  deadline |-> s.now + FootprintLifetime])]

\* the interval test made inclusive
FootprintDueInclusive(s, currentTime) ==
  currentTime - s.lastFootprintTime >= FootprintInterval

\* currentTime - lastFootprintTime > 1000
FootprintDue(s, currentTime) ==
  currentTime - s.lastFootprintTime > FootprintInterval

\* the footprint gate at the end of animate: walkAction is dereferenced
\* without a null check
FootprintGate(s) ==
  IF s.walkAction = "null"
  THEN [s EXCEPT !.fault = "TypeError"]
  ELSE IF IsRunning(s.walkAction)
  THEN LET currentTime == s.now
       IN IF FootprintDue(s, currentTime)
          THEN [PlaceFootprint(s, s.pigPosition, s.pigQuaternion)
                  EXCEPT !.lastFootprintTime = currentTime]
          ELSE s
  ELSE s

\* renderer.render(scene, camera): the pig is drawn once it is in the scene
Render(s) ==
  [s EXCEPT !.rendered = IF <<"pig">> \in s.scene THEN s.pigQuaternion ELSE @]

\* the tick with the render ahead of the correction
AnimateFromRenderFirst(s, hit) ==
  LET s1 == EnsurePigIsUpsideDown(Render(s))
      s2 == IF s1.sessionActive THEN Targeting(s1, hit) ELSE s1
      s3 == Then(s2, CollectClosestDonut)
      s4 == Then(s3, CheckPigMovement)
  IN Then(s4, FootprintGate)

\* animate(timestamp, frame): a frame is passed while an XR session runs
AnimateFrom(s, hit) ==
  LET s1 == Render(EnsurePigIsUpsideDown(s))
      s2 == IF s1.sessionActive THEN Targeting(s1, hit) ELSE s1
      s3 == Then(s2, CollectClosestDonut)
      s4 == Then(s3, CheckPigMovement)
  IN Then(s4, FootprintGate)

AnimateWith(poses) ==
  \E hit \in (IF sessionActive /\ hitTestSource = sessionId /\ sessionId # 0
              THEN poses ELSE {}) \cup {NoSample} :
    Commit(AnimateFrom(Enter, hit))

Animate == AnimateWith(HitPoses)

\* ------------------------------------------------------------- timers
\* the removal taking every footprint along
RemoveFootprints(objects, id) == {o \in objects : o[1] # "footprint"}

\* the removal leaving the footprint in the scene
RemoveFootprintNever(objects, id) == objects

\* scene.remove(footprint), for the footprint the callback closes over
RemoveFootprint(objects, id) ==
  {o \in objects : ~(o[1] = "footprint" /\ o[2] = id)}

\* the body of the setTimeout callback t
Callback(s, t) ==
  CASE t.kind = "eat" ->
         [s EXCEPT !.eatingAction = Stop(@), !.idleAction = Play(@)]
    [] t.kind = "death" ->
         [s EXCEPT !.deathAction = Stop(@), !.idleAction = Play(@)]
    [] OTHER ->
         [s EXCEPT !.scene = RemoveFootprint(@, t.target)]

\* the first timer of the queue fires once its deadline is reached
Timeout ==
  /\ timers # <<>>
  /\ Head(timers).deadline <= now
  /\ Commit(Callback([Enter EXCEPT !.timers = Tail(@)], Head(timers)))

\* The clock moves on to the next observed instant or timer deadline, whichever
\* comes first; a timer that is due fires before the clock moves on.
AdvanceTo(instants) ==
  LET later == {i \in instants \cup {timers[k].deadline : k \in 1..Len(timers)} :
                  now < i /\ \E j \in instants : i <= j}
  IN /\ later # {}
     /\ \A k \in 1..Len(timers) : timers[k].deadline > now
     /\ Commit([Enter EXCEPT
          !.now = CHOOSE i \in later : \A j \in later : i <= j])

Advance == AdvanceTo(ShortInstants)

Next ==
  \/ LoadModel \/ LoadPig
  \/ SessionStart \/ HitTestSourceResolved \/ SessionEnd
  \/ Select \/ Animate \/ Timeout \/ Advance

Spec == Init /\ [][Next]_vars

\* ------------------------------------------------- the loop, once targeting
\* A state Spec reaches by LoadModel, SessionStart and HitTestSourceResolved:
\* the prototype is loaded and the session has its hit-test source; the pig
\* is still loading.
InitReadyAt(instant) ==
  /\ now = instant
  /\ model = TRUE /\ modelVisible = FALSE
  /\ pig = FALSE /\ pigPosition = 0 /\ pigQuaternion = "identity"
  /\ pigVisible = FALSE
  /\ walkAction = "null" /\ idleAction = "null"
  /\ eatingAction = "null" /\ deathAction = "null"
  /\ nb_donuts = 0 /\ donuts_collected = 0 /\ donuts = <<>>
  /\ scene = {<<"reticle">>, <<"model">>}
  /\ reticleVisible = FALSE
  /\ reticleMatrix = [position |-> 0, quaternion |-> "identity", scale |-> 1]
  /\ hitTestSource = 1 /\ hitTestSourceRequested = FALSE
  /\ sessionActive = TRUE /\ sessionId = 1 /\ endListener = FALSE
  /\ pendingHitTest = {}
  /\ lastMovementTime = StartTime
  /\ lastFootprintTime = 0 /\ lastDeathActionTime = 0
  /\ timers = <<>> /\ rendered = "none"
  /\ played = <<>> /\ fault = "none"

InitReady == InitReadyAt(StartTime)

SelectLoop == SelectWithin(MaxDonuts, MaxTotal)

NextLoop == LoadPig \/ SelectLoop \/ Animate \/ Timeout \/ Advance

SpecLoop == InitReady /\ [][NextLoop]_vars

\* a tick would change the state: ENABLED <<Animate>>_vars written out, since
\* Commit(r) changes vars exactly when r differs from Cur
TickChanges ==
  \E hit \in (IF sessionActive /\ hitTestSource = sessionId /\ sessionId # 0
              THEN HitPoses ELSE {}) \cup {NoSample} :
    AnimateFrom(Enter, hit) # Cur

\* renderer.setAnimationLoop(animate): the loop keeps calling animate, which
\* is WF_vars(Animate) with its enabling condition written as TickChanges
SpecLoopFair ==
  SpecLoop /\ ([]<>(~TickChanges) \/ []<><<Animate>>_vars)

\* enough placements to reach a milestone; the clock stands still
SelectMany == SelectWithin(MaxDonuts, MaxCollected)

NextMilestone == LoadPig \/ SelectMany \/ Animate

SpecMilestone == InitReady /\ [][NextMilestone]_vars

\* long waits, with at most one donut
SelectOne == SelectWithin(1, 1)

AdvanceLong == AdvanceTo(LongInstants)

\* every sample hits the same ceiling point
AnimateCeiling == AnimateWith(CeilingPoses)

NextWatchdog ==
  LoadPig \/ SelectOne \/ AnimateCeiling \/ Timeout \/ AdvanceLong

SpecWatchdog == InitReady /\ [][NextWatchdog]_vars

\* -------------------------------------------------------------- the walk
\* the loop of SpecMilestone, begun one cooldown after the start
InitLater == InitReadyAt(StartTime + EatCooldown)

SpecWalk == InitLater /\ [][NextMilestone]_vars

\* ------------------------------------------------------------- the trail
\* the clock is observed one footprint interval after the start, two
\* intervals after it, and once the footprints left by then have expired
TrailInstants ==
  {StartTime + FootprintInterval, StartTime + 2 * FootprintInterval,
   StartTime + 2 * FootprintInterval + FootprintLifetime}

\* every sample hits one of two ceiling points
TrailPoses ==
  {[position |-> 0, quaternion |-> "ceiling", scale |-> 1],
   [position |-> 4, quaternion |-> "steep", scale |-> 1]}

\* one donut in the registry at a time
SelectTrail == SelectWithin(1, MaxTotal)

AnimateTrail == AnimateWith(TrailPoses)

AdvanceTrail == AdvanceTo(TrailInstants)

NextTrail ==
  LoadPig \/ SelectTrail \/ AnimateTrail \/ Timeout \/ AdvanceTrail

SpecTrail == InitReady /\ [][NextTrail]_vars

\* ------------------------------------------------------- the trail, dense
\* the clock is observed at the shortest spacing that lets every walking
\* tick leave a footprint: one millisecond more than the interval
MarkInstants ==
  {StartTime + k * (FootprintInterval + 1) : k \in 1..MaxMarks}

\* every sample hits the same ceiling point
MarkPoses == {[position |-> 0, quaternion |-> "ceiling", scale |-> 1]}

\* (Math.random() - 0.5) * 2 drawn far enough from zero for a walk of more
\* than five intervals
MarkOffsets == {17}

\* a single donut
SelectMark ==
  /\ OnSelectWith(MarkOffsets)
  /\ Len(donuts') + donuts_collected' <= 1

AnimateMark == AnimateWith(MarkPoses)

AdvanceMark == AdvanceTo(MarkInstants)

NextMarks ==
  LoadPig \/ SelectMark \/ AnimateMark \/ Timeout \/ AdvanceMark

SpecMarks == InitReady /\ [][NextMarks]_vars

\* =================================================================== claims
\* what a handler played of one cue
Plays(events, cue) == {i \in 1..Len(events) : events[i][1] = cue}

\* the agent as the claims see it
agent == <<pigPosition, pigQuaternion, pigVisible,
           walkAction, idleAction, eatingAction, deathAction>>

\* C1: a select taken with the reticle visible and the prototype loaded whose
\* rotated up-vector has a vertical component not below -0.5 leaves the
\* registry as it was and plays the 'doh' sound exactly once, at the reticle.
C1_RejectKeepsRegistry ==
  [][(OnSelect /\ reticleVisible /\ model /\ UpY(reticleMatrix.quaternion) >= -50)
       => (/\ donuts' = donuts
           /\ played' = << <<"doh", reticleMatrix.position>> >>)]_vars

\* a rejected select has just played 'doh' next to a non-empty registry
C1_Witness ==
  /\ Plays(played, "doh") # {}
  /\ donuts # <<>>
  /\ reticleVisible /\ model /\ UpY(reticleMatrix.quaternion) >= -50

\* C2: a select taken with the reticle visible, the prototype loaded and a
\* ceiling score below -0.5 appends exactly one donut to the registry, and
\* that donut has the reticle's position, orientation and scale.
C2_AcceptAppendsAtReticle ==
  [][(OnSelect /\ reticleVisible /\ model /\ UpY(reticleMatrix.quaternion) < -50)
       => (/\ Len(donuts') = Len(donuts) + 1
           /\ SubSeq(donuts', 1, Len(donuts)) = donuts
           /\ donuts'[Len(donuts')].position = reticleMatrix.position
           /\ donuts'[Len(donuts')].quaternion = reticleMatrix.quaternion
           /\ donuts'[Len(donuts')].scale = reticleMatrix.scale)]_vars

\* a second donut has been appended behind a different one, at the reticle
C2_Witness ==
  /\ Len(donuts) = 2
  /\ donuts[1].position # donuts[2].position
  /\ donuts[2].position = reticleMatrix.position
  /\ donuts[2].quaternion = reticleMatrix.quaternion
  /\ reticleVisible /\ played = <<>>

\* C3: a select taken while the reticle is hidden changes neither the
\* registry, the scene, the agent nor the items-placed count, and plays
\* nothing.
C3_HiddenReticleNoOp ==
  [][(OnSelect /\ ~reticleVisible)
       => (/\ UNCHANGED <<donuts, scene, agent, nb_donuts, donuts_collected>>
           /\ played' = <<>>)]_vars

\* the reticle is hidden during a session with everything loaded and a donut
\* in the registry, so that a select would have something to change
C3_Witness ==
  /\ sessionActive /\ ~reticleVisible
  /\ model /\ pig /\ donuts # <<>>
  /\ UpY(reticleMatrix.quaternion) < -50

\* the distance from the agent to donut i
DonutDistance(i) == DistanceTo(pigPosition, donuts[i].position)

\* C4: the nearest-item scan gives none (0) for an empty registry, otherwise
\* a donut at minimal distance from the agent, the earliest inserted of those.
C4_NearestEarliestMinimum ==
  LET k == ClosestDonut(donuts, pigPosition)
  IN IF donuts = <<>>
     THEN k = 0
     ELSE /\ k \in 1..Len(donuts)
          /\ \A j \in 1..Len(donuts) : DonutDistance(k) <= DonutDistance(j)
          /\ \A j \in 1..(k - 1) : DonutDistance(j) > DonutDistance(k)

\* two donuts are equally far from the loaded agent
C4_Witness ==
  /\ pig /\ Len(donuts) = 2
  /\ DonutDistance(1) = DonutDistance(2)

\* the donut the claims call nearest: minimal distance, earliest inserted
Nearest ==
  CHOOSE k \in 1..Len(donuts) :
    /\ \A j \in 1..Len(donuts) : DonutDistance(k) <= DonutDistance(j)
    /\ \A j \in 1..(k - 1) : DonutDistance(j) > DonutDistance(k)

\* C5: a tick with the agent loaded that leaves the agent less than 0.1 from
\* the donut that was nearest removes that donut from the registry, adds one
\* to the collected counter and leaves the eating clip running and the walk
\* clip stopped.
C5_CollectWithinTick ==
  [][(/\ Animate /\ pig /\ donuts # <<>>
      /\ DistanceTo(pigPosition', donuts[Nearest].position) < 10)
       => (/\ donuts' = RemoveAt(donuts, Nearest)
           /\ <<"donut", donuts[Nearest].id>> \notin scene'
           /\ donuts_collected' = donuts_collected + 1
           /\ eatingAction' = "running"
           /\ walkAction' = "stopped")]_vars

\* a tick has just collected a donut after walking up to it
C5_Witness ==
  /\ Plays(played, "point") # {}
  /\ donuts_collected = 1
  /\ eatingAction = "running" /\ walkAction = "stopped"
  /\ Len(timers) > 0

\* C6: a step that changes the collected counter plays the point sound once,
\* and plays the victory sound exactly when the new count is a multiple of
\* 10; no other step plays the victory sound.
C6_MilestoneEveryTenth ==
  [][/\ (donuts_collected' # donuts_collected)
          => /\ Cardinality(Plays(played', "point")) = 1
             /\ (Plays(played', "victory") # {}) <=> (donuts_collected' % 10 = 0)
     /\ (Plays(played', "victory") # {})
          => (donuts_collected' = donuts_collected + 1)]_vars

\* the tenth collection has just played the victory sound
C6_Witness ==
  /\ donuts_collected = 10
  /\ Cardinality(Plays(played, "victory")) = 1

\* the original reading of C7: every tick taken with the agent loaded and
\* both elapsed times above 30 s leaves the dormant clip running
C7_DormantOnNextTick ==
  [][(/\ AnimateCeiling /\ pig
      /\ now - lastMovementTime > 30000
      /\ now - lastDeathActionTime > 30000)
       => deathAction' = "running"]_vars

\* C7: a tick that reaches the watchdog with the agent loaded, the registry
\* empty and both elapsed times above 30 s leaves the dormant clip running;
\* the dormant clip is started only when more than 30 s have passed since
\* the last movement and since the last Dormant entry, and the start is
\* recorded as the last Dormant entry; the dormant callback fires no earlier
\* than the clip's duration after that entry and leaves the dormant clip
\* stopped and the idle clip running.
C7_DormantOncePerInterval ==
  [][/\ (/\ AnimateCeiling /\ pig /\ donuts = <<>> /\ fault' = "none"
         /\ now - lastMovementTime > 30000
         /\ now - lastDeathActionTime > 30000)
          => deathAction' = "running"
     /\ (deathAction # "running" /\ deathAction' = "running")
          => /\ now - lastMovementTime > 30000
             /\ now - lastDeathActionTime > 30000
             /\ lastDeathActionTime' = now
     /\ (Timeout /\ Head(timers).kind = "death")
          => /\ now >= lastDeathActionTime + 3000
             /\ deathAction' = "stopped"
             /\ idleAction' = "running"]_vars

\* the dormant callback has fired for a second Dormant entry, more than 30 s
\* after the start
C7_Witness ==
  /\ pig /\ deathAction = "stopped" /\ idleAction = "running"
  /\ lastDeathActionTime > StartTime + 60000
  /\ now = lastDeathActionTime + 3000
  /\ \A k \in 1..Len(timers) : timers[k].kind # "death"

\* the clips that are running
Running ==
  {c \in {"walk", "idle", "eat", "death"} :
     CASE c = "walk" -> walkAction = "running"
       [] c = "idle" -> idleAction = "running"
       [] c = "eat" -> eatingAction = "running"
       [] OTHER -> deathAction = "running"}

\* C8: once a clip of the loaded agent is running, exactly one of the walk,
\* idle, eat and dormant clips is running.
C8_ExactlyOneClip ==
  (pig /\ Running # {}) => Cardinality(Running) = 1

\* C9: a return-to-Idle callback that fires while the walk clip is running
\* leaves the idle clip and the walk clip as they were.
C9_CallbackKeepsWalking ==
  [][(/\ Timeout /\ Head(timers).kind \in {"eat", "death"}
      /\ walkAction = "running")
       => (idleAction' = idleAction /\ walkAction' = walkAction)]_vars

\* the footprints in the scene
Footprints == {o \in scene : o[1] = "footprint"}

\* C10: a tick taken before the agent has loaded completes without a fault
\* and leaves the agent, the registry, the collected counter and the
\* footprints unchanged.
C10_TickBeforeLoadNoOp ==
  [][(Animate /\ ~pig)
       => (/\ fault' = "none"
           /\ UNCHANGED <<agent, donuts, donuts_collected>>
           /\ Footprints' = Footprints)]_vars

\* the donuts in the scene
DonutsInScene == {o \in scene : o[1] = "donut"}

\* C11: a tick or a select taken before the prototype and the agent have
\* both loaded changes neither the registry, the donuts in the scene nor the
\* agent.
C11_NoEffectBeforeReady ==
  [][((OnSelect \/ Animate) /\ ~(model /\ pig))
       => (/\ donuts' = donuts
           /\ DonutsInScene' = DonutsInScene
           /\ agent' = agent)]_vars

\* a tick for which no hit-test sample is available: no frame, no usable
\* hit-test source, or an empty result list
AnimateNoSample == Commit(AnimateFrom(Enter, NoSample))

\* C12: a tick without a hit-test sample leaves the reticle hidden.
C12_NoSampleHidesReticle ==
  [][AnimateNoSample => ~reticleVisible']_vars

\* C13: the hit-test source is null unless a session is running, and a
\* source that is installed belongs to the running session.
C13_NoStaleHitTestSource ==
  hitTestSource # 0 => (sessionActive /\ hitTestSource = sessionId)

\* C14: the agent is made visible or added to the scene only by an accepted
\* select that finds the items-placed count at zero and raises it to one; a
\* select that finds the count above zero leaves the agent's pose and
\* visibility alone; the count never decreases and never exceeds one.
C14_MaterializeAtMostOnce ==
  [][/\ (pigVisible' # pigVisible \/ (<<"pig">> \in scene') # (<<"pig">> \in scene))
          => (/\ OnSelect /\ nb_donuts = 0 /\ nb_donuts' = 1
              /\ Len(donuts') = Len(donuts) + 1)
     /\ (OnSelect /\ nb_donuts # 0)
          => UNCHANGED <<pigPosition, pigQuaternion, pigVisible>>
     /\ nb_donuts <= nb_donuts' /\ nb_donuts' <= 1]_vars

\* a second donut has been accepted next to the first, and the agent still
\* stands where the first placement put it
C14_Witness ==
  /\ pigVisible /\ nb_donuts = 1 /\ Len(donuts) = 2
  /\ Abs(pigPosition - donuts[1].position) = 11

\* C15: the select that accepts the first placement (items-placed count at
\* zero) leaves the agent visible, in the scene, and less than 1 unit from
\* the placed donut.
C15_FirstPlacementMaterializes ==
  [][(/\ OnSelect /\ reticleVisible /\ model
      /\ UpY(reticleMatrix.quaternion) < -50 /\ nb_donuts = 0)
       => (/\ pigVisible' /\ <<"pig">> \in scene'
           /\ Abs(pigPosition' - reticleMatrix.position) < 100)]_vars

\* C16: the donuts in the scene are exactly the donuts of the registry, each
\* once, and every donut of the registry is visible.
C16_SceneMatchesRegistry ==
  /\ DonutsInScene = {<<"donut", donuts[i].id>> : i \in 1..Len(donuts)}
  /\ Cardinality(DonutsInScene) = Len(donuts)
  /\ \A i \in 1..Len(donuts) : donuts[i].visible

\* a donut has been collected while another one stays in the registry
C16_Witness ==
  /\ donuts_collected >= 1 /\ Len(donuts) = 1
  /\ Plays(played, "point") # {}

\* the footprints a step adds to the scene
NewFootprints == Footprints' \ Footprints

\* the original reading of C17: a tick adds a footprint only if the walk
\* clip is running at the footprint gate and at least 1000 ms have passed
\* since the last footprint; a tick of the loaded agent for which both hold
\* adds exactly one footprint, at the agent's position and facing.
C17_FootprintAtInterval ==
  [][/\ (AnimateTrail /\ NewFootprints # {})
          => (walkAction' = "running" /\ now - lastFootprintTime >= 1000)
     /\ (/\ AnimateTrail /\ pig /\ walkAction' = "running"
         /\ now - lastFootprintTime >= 1000)
          => (/\ Cardinality(NewFootprints) = 1
              /\ \A f \in NewFootprints :
                   f[3] = pigPosition' /\ f[4] = pigQuaternion')]_vars

\* C17: a tick adds a footprint only if the walk clip is running at the
\* footprint gate and more than 1000 ms have passed since the last
\* footprint; a tick of the loaded agent for which both hold adds exactly
\* one footprint, at the agent's position and facing.
C17_FootprintAfterInterval ==
  [][/\ (AnimateTrail /\ NewFootprints # {})
          => (walkAction' = "running" /\ now - lastFootprintTime > 1000)
     /\ (/\ AnimateTrail /\ pig /\ walkAction' = "running"
         /\ now - lastFootprintTime > 1000)
          => (/\ Cardinality(NewFootprints) = 1
              /\ \A f \in NewFootprints :
                   f[3] = pigPosition' /\ f[4] = pigQuaternion')]_vars

\* a walking tick has just left a second footprint, 2000 ms after the first
C17_Witness ==
  /\ pig /\ walkAction = "running"
  /\ now = StartTime + 2000 /\ lastFootprintTime = now
  /\ Cardinality(Footprints) = 2
  /\ \E f \in Footprints : f[3] = pigPosition /\ f[4] = pigQuaternion

\* the pending removal timers of footprint id
RemovalTimers(ts, id) ==
  {k \in 1..Len(ts) : ts[k].kind = "footprint" /\ ts[k].target = id}

\* C18: a footprint is added together with one removal timer due 5000 ms
\* later; every footprint in the scene has exactly one pending removal timer
\* and every pending removal timer has its footprint; a footprint leaves the
\* scene only when its own timer fires, not before its deadline, alone, and
\* with the agent left as it is.
C18_FootprintRemovedOnce ==
  [][/\ \A f \in NewFootprints :
          \E k \in RemovalTimers(timers', f[2]) :
            timers'[k].deadline = now + 5000
     /\ \A f \in Footprints' : Cardinality(RemovalTimers(timers', f[2])) = 1
     /\ \A k \in 1..Len(timers') :
          timers'[k].kind = "footprint"
            => \E f \in Footprints' : f[2] = timers'[k].target
     /\ (Footprints \ Footprints' # {})
          => (/\ Timeout /\ Head(timers).kind = "footprint"
              /\ now >= Head(timers).deadline
              /\ Footprints \ Footprints'
                   = {f \in Footprints : f[2] = Head(timers).target}
              /\ agent' = agent)
     /\ (Timeout /\ Head(timers).kind = "footprint")
          => Cardinality(Footprints \ Footprints') = 1]_vars

\* the first footprint has been removed 5000 ms after the start while the
\* second, left 2000 ms after the first, stays until its own deadline
C18_Witness ==
  /\ now = StartTime + 5000
  /\ Cardinality(Footprints) = 1
  /\ \E k \in 1..Len(timers) :
       timers[k].kind = "footprint" /\ timers[k].deadline = StartTime + 7000
  /\ \A k \in 1..Len(timers) : timers[k].deadline > now

\* C19: after a tick with the agent loaded, the agent's up vector dotted
\* with the ceiling normal (0,-1,0) is at least 0.99.
C19_InvertedAfterTick ==
  [][(Animate /\ pig) => -UpY(pigQuaternion') >= 99]_vars

\* the handles of the donuts in the registry
RegistryIds == {donuts[i].id : i \in 1..Len(donuts)}

\* C20: every step leaves the collected counter as it is or raises it by
\* one; it raises it exactly when it removes a donut from the registry, and
\* no step removes more than one donut.
C20_CounterCountsRemovals ==
  [][/\ donuts_collected' \in {donuts_collected, donuts_collected + 1}
     /\ (donuts_collected' = donuts_collected + 1)
          <=> (RegistryIds \ RegistryIds' # {})
     /\ Cardinality(RegistryIds \ RegistryIds') <= 1
     /\ (RegistryIds \ RegistryIds' # {}) => Len(donuts') = Len(donuts) - 1]_vars

\* two donuts have been collected, the second just now, with the callback
\* of the first collection still to fire
C20_Witness ==
  /\ donuts_collected = 2 /\ donuts = <<>>
  /\ Plays(played, "point") # {}
  /\ Cardinality({k \in 1..Len(timers) : timers[k].kind = "eat"}) = 2

\* C21: a tick with the agent loaded and the registry empty leaves the idle
\* clip running and neither the walk clip nor the eating clip running.
C21_IdleWhenRegistryEmpty ==
  [][(Animate /\ pig /\ donuts = <<>>)
       => (/\ idleAction' = "running"
           /\ walkAction' # "running"
           /\ eatingAction' # "running")]_vars

\* the original reading of C22: every tick with the agent loaded and the
\* registry non-empty moves the agent by exactly 0.01 toward the donut that
\* was nearest, sets the last-movement timestamp to the tick's time, and, if
\* the walk clip was not running, stops the idle clip and leaves the walk
\* clip running unless the donut is collected in the same tick.
C22_StepTowardNearest ==
  [][(Animate /\ pig /\ donuts # <<>>)
       => (/\ pigPosition'
                = pigPosition + Direction(donuts[Nearest].position, pigPosition)
           /\ pigPosition' # pigPosition
           /\ lastMovementTime' = now
           /\ (walkAction # "running")
                => (/\ idleAction' = "stopped"
                    /\ IF donuts_collected' = donuts_collected
                       THEN walkAction' = "running" /\ eatingAction' = "stopped"
                       ELSE walkAction' = "stopped" /\ eatingAction' = "running"))]_vars

\* C22: every tick with the agent loaded and the registry non-empty moves
\* the agent by exactly 0.01 toward the donut that was nearest, or leaves it
\* in place when it already stands at that donut's position; it sets the
\* last-movement timestamp to the tick's time, and, if the walk clip was not
\* running, stops the idle clip and leaves the walk clip running unless the
\* donut is collected in the same tick.
C22_StepTowardNearestUnlessThere ==
  [][(Animate /\ pig /\ donuts # <<>>)
       => (/\ IF pigPosition = donuts[Nearest].position
              THEN pigPosition' = pigPosition
              ELSE /\ Abs(pigPosition' - pigPosition) = 1
                   /\ DistanceTo(pigPosition', donuts[Nearest].position)
                        = DistanceTo(pigPosition, donuts[Nearest].position) - 1
           /\ lastMovementTime' = now
           /\ (walkAction # "running")
                => (/\ idleAction' = "stopped"
                    /\ IF donuts_collected' = donuts_collected
                       THEN walkAction' = "running" /\ eatingAction' = "stopped"
                       ELSE walkAction' = "stopped" /\ eatingAction' = "running"))]_vars

\* a tick has collected a donut placed where the agent stood: the facing
\* computed from the zero direction is the identity
C22_Witness ==
  /\ pig /\ pigQuaternion = "identity"
  /\ Plays(played, "point") # {}
  /\ lastMovementTime = now /\ now > StartTime

\* C23: a hit-test source request is issued for a session only if no request
\* for that session is pending and none has installed its source.
C23_OneRequestPerSession ==
  [][\A r \in pendingHitTest' \ pendingHitTest :
       /\ \A q \in pendingHitTest : q.session # r.session
       /\ hitTestSource # r.session]_vars

\* C24: the render of a tick draws the agent in the orientation the
\* correction has left, not the one the tick began with; a tick that enters
\* Walking with more than 1000 ms passed since the last footprint leaves a
\* footprint at the position the agent has moved to; a tick that stops the
\* walk clip leaves none.
C24_TickOrder ==
  [][/\ (AnimateTrail /\ <<"pig">> \in scene)
          => rendered' = (IF -UpY(pigQuaternion) < 99
                          THEN "zeroAxisPi" ELSE pigQuaternion)
     /\ (/\ AnimateTrail /\ pig
         /\ walkAction # "running" /\ walkAction' = "running"
         /\ now - lastFootprintTime > 1000)
          => \E f \in NewFootprints : f[3] = pigPosition'
     /\ (AnimateTrail /\ walkAction = "running" /\ walkAction' # "running")
          => NewFootprints = {}]_vars

\* a tick that began with the agent facing along its walk has drawn it
\* corrected, moved it on and left a footprint where it now stands
C24_Witness ==
  /\ rendered = "zeroAxisPi"
  /\ pigQuaternion \in {"yawPlus", "yawMinus"}
  /\ walkAction = "running" /\ lastFootprintTime = now
  /\ now = StartTime + 2000
  /\ \E f \in Footprints : f[3] = pigPosition

\* a tick whose frame delivers the hit-test sample hit
AnimateSample(hit) ==
  /\ sessionActive /\ sessionId # 0 /\ hitTestSource = sessionId
  /\ Commit(AnimateFrom(Enter, hit))

\* C25: a tick with a hit-test sample leaves the reticle pose equal to the
\* sample, whatever the pose was; a tick without a sample, and every step
\* that is not a tick, leaves the pose as it was.
C25_PoseFromLatestSample ==
  [][/\ \A hit \in HitPoses : AnimateSample(hit) => reticleMatrix' = hit
     /\ AnimateNoSample => reticleMatrix' = reticleMatrix
     /\ ~Animate => reticleMatrix' = reticleMatrix]_vars

\* a tick without a sample has hidden the reticle and kept the pose of the
\* sample before it, which had replaced the pose a donut was placed at
C25_Witness ==
  /\ ~reticleVisible /\ sessionActive /\ hitTestSource = sessionId
  /\ reticleMatrix.position = 4 /\ reticleMatrix.quaternion = "edge"
  /\ donuts # <<>> /\ donuts[1].position = 0

\* the donuts accounted for: in the registry or collected
Accounted == Len(donuts) + donuts_collected

\* C26: a select that is accepted raises the registry size plus the
\* collected counter by one and every other step leaves that sum as it is,
\* so the sum is the number of accepted placements; a donut enters the
\* registry only by a select and leaves it only by a tick that counts it as
\* collected.
C26_ItemsConserved ==
  [][/\ Accounted' =
          IF /\ OnSelect /\ reticleVisible /\ model
             /\ UpY(reticleMatrix.quaternion) < -50
          THEN Accounted + 1 ELSE Accounted
     /\ (RegistryIds' \ RegistryIds # {}) => (OnSelect /\ ~Animate)
     /\ (RegistryIds \ RegistryIds' # {})
          => (Animate /\ donuts_collected' = donuts_collected + 1)]_vars

\* a second placement has been accepted after the first donut was collected
C26_Witness ==
  /\ donuts_collected = 1 /\ Len(donuts) = 1
  /\ played = <<>> /\ reticleVisible
  /\ donuts[1].position = reticleMatrix.position

\* C27: while ticks keep occurring, every donut in the registry of the
\* loaded agent is eventually collected, and once the agent has loaded the
\* registry eventually is empty and stays empty.
C27_EveryDonutCollected ==
  /\ \A id \in 1..MaxDonuts :
       (pig /\ id \in RegistryIds) ~> (id \notin RegistryIds)
  /\ (<>pig) => <>[](donuts = <<>>)

\* the last donut the bounds allow has been collected after a walk
C27_Witness ==
  /\ pig /\ donuts = <<>> /\ donuts_collected = MaxTotal
  /\ Plays(played, "point") # {}
  /\ Cardinality(Footprints) >= 1

\* C28: a tick that begins with the agent loaded and the registry non-empty
\* records the movement at the tick's time and does not enter Dormant: the
\* dormant clip is left as it was, the last Dormant entry is not rewritten
\* and no dormant callback is scheduled, however long ago the last movement
\* and the last Dormant entry were.
C28_NoDormantInMovingTick ==
  [][(AnimateCeiling /\ pig /\ donuts # <<>>)
       => /\ lastMovementTime' = now
          /\ deathAction' = deathAction
          /\ lastDeathActionTime' = lastDeathActionTime
          /\ Len(SelectSeq(timers', LAMBDA t : t.kind = "death"))
               = Len(SelectSeq(timers, LAMBDA t : t.kind = "death"))]_vars

\* the agent has just moved, more than 30 s after the start and with no
\* Dormant entry ever made, and walks on
C28_Witness ==
  /\ pig /\ donuts # <<>>
  /\ now - StartTime > IdleTimeout
  /\ lastMovementTime = now
  /\ lastDeathActionTime = 0
  /\ walkAction = "running" /\ deathAction = "stopped"

\* C29: between handlers, the walk clip runs only while the registry holds a
\* donut.
C29_WalkingHasTarget ==
  walkAction = "running" => donuts # <<>>

\* the agent walks to a second donut after having collected a first, past
\* the first's cooldown callback
C29_Witness ==
  /\ walkAction = "running" /\ Len(donuts) = 1
  /\ donuts_collected = 1 /\ idleAction = "running"

\* the pending callbacks of a kind
Pending(kind) == {k \in 1..Len(timers) : timers[k].kind = kind}

\* C30: between handlers, a running eating clip has a pending cooldown
\* callback set by a collection at most 2000 ms ago, and a running dormant
\* clip has a pending dormant callback set at the last Dormant entry; the
\* cooldown callback leaves the eating clip stopped and the dormant callback
\* leaves the dormant clip stopped.
C30_DelayedTransitionsPending ==
  /\ [](eatingAction = "running"
          => \E k \in Pending("eat") :
               /\ timers[k].deadline - EatCooldown <= now
               /\ now <= timers[k].deadline)
  /\ [](deathAction = "running"
          => \E k \in Pending("death") :
               /\ timers[k].deadline = lastDeathActionTime + DeathClipDuration
               /\ now <= timers[k].deadline)
  /\ [][Timeout => /\ Head(timers).kind = "eat" => eatingAction' = "stopped"
                   /\ Head(timers).kind = "death" => deathAction' = "stopped"]_vars

\* the eating clip runs at the very end of its cooldown, the callback due,
\* after a Dormant entry that has ended
C30_Witness ==
  /\ eatingAction = "running"
  /\ \E k \in Pending("eat") : timers[k].deadline = now
  /\ lastDeathActionTime > 0 /\ deathAction = "stopped"

\* C31: between handlers, with every removal callback run when its deadline
\* is reached, at most 5 footprints are in the scene.
C31_AtMostFiveFootprints ==
  Cardinality(Footprints) <= 5

\* five footprints are in the scene, the oldest about to expire, and the
\* agent walks on
C31_Witness ==
  /\ Cardinality(Footprints) = 5
  /\ walkAction = "running"
  /\ now = lastFootprintTime
  /\ \E k \in Pending("footprint") :
       timers[k].deadline - now < FootprintInterval

====
